---- MODULE Spec2Model ----
(***************************************************************************)
(* Model of GetHearthstoneData/__init__.py: a timer-triggered job that     *)
(* loads a card catalog (blob cache first, remote source as fallback),     *)
(* fetches trinket statistics, joins both by dbfId, sorts the result and   *)
(* overwrites the processed-data blob.                                     *)
(*                                                                         *)
(* Every blob-store call and every HTTP request is one atomic step; the    *)
(* environment decides nondeterministically whether the call fails.        *)
(* Fields of a stat record that are copied or reformatted without          *)
(* influencing control flow (pick_rate, tier, group) are left out.         *)
(***************************************************************************)
EXTENDS Integers, Sequences, FiniteSets, TLC

\* ------------------------------------------------------------------ bounds
\* longest stat list served by the remote stats source
MaxStats == 2

\* ------------------------------------------------------------ value model
\* the two invocations of main that the model follows
Inv == {1, 2}

\* card objects as they appear in cards.json: two share a dbfId and differ in
\* name and text, one lacks 'dbfId'
CardA  == [dbfId |-> 1, name |-> "A",  text |-> <<"<b>", "x", "</b>">>]
CardA2 == [dbfId |-> 1, name |-> "A2", text |-> <<"y", "\\n", "z">>]
CardB  == [dbfId |-> 2, name |-> "B",  text |-> <<"<i>", "w", "</i>">>]
CardN  == [name |-> "N", text |-> <<"n">>]

\* the card lists the remote catalog source may serve, and the cache may hold
\* from an earlier day
CardPayloads ==
    { <<>>, <<CardA>>, <<CardB>>, <<CardN>>,
      <<CardA2, CardB>>, <<CardA, CardA2>> }

\* stat objects as the HSReplay API serves them; no card has dbfId 3
StatRecs ==
    { [trinket_dbf_id |-> 1, avg_final_placement |-> 2,
       final_placement_distribution |-> <<10, 20, 5>>],
      [trinket_dbf_id |-> 2, avg_final_placement |-> 1,
       final_placement_distribution |-> <<1, 2>>],
      [trinket_dbf_id |-> 3, avg_final_placement |-> 1,
       final_placement_distribution |-> <<>>] }

SeqsUpTo(S, n) == UNION { [1..k -> S] : k \in 0..n }

StatPayloads == SeqsUpTo(StatRecs, MaxStats)

\* contents of a blob: no blob, bytes that are not JSON, or a JSON array
Absent  == [kind |-> "absent",  items |-> <<>>]
Corrupt == [kind |-> "corrupt", items |-> <<>>]
JsonArray(items) == [kind |-> "json", items |-> items]

\* Python's None and a present value, for card_map and trinket_stats
None == [some |-> FALSE, val |-> <<>>]
Some(v) == [some |-> TRUE, val |-> v]

\* ---------------------------------------------------------- json.dumps/loads
CardKeys == <<"dbfId", "name", "text">>

\* a serialisation that loses the 'name' member
EncodeCard_nameless(card) ==
    IF "dbfId" \in DOMAIN card THEN << <<"dbfId", card.dbfId>> >> ELSE <<>>

\* json.dumps of one card object: its members in order, as key/value pairs
EncodeCard(card) ==
    LET F[n \in 0..Len(CardKeys)] ==
            IF n = 0 THEN <<>>
            ELSE IF CardKeys[n] \in DOMAIN card
                 THEN Append(F[n - 1], <<CardKeys[n], card[CardKeys[n]]>>)
                 ELSE F[n - 1]
    IN  F[Len(CardKeys)]

\* json.loads of one object: a mapping from the keys present to their values
DecodeObj(pairs) ==
    LET keys == { pairs[i][1] : i \in DOMAIN pairs }
        last(k) == CHOOSE i \in DOMAIN pairs :
                      /\ pairs[i][1] = k
                      /\ \A j \in DOMAIN pairs : pairs[j][1] = k => j <= i
    IN  [k \in keys |-> pairs[last(k)][2]]

\* json.dumps(card_data, ensure_ascii=False)
Dumps(card_data) ==
    JsonArray([i \in DOMAIN card_data |-> EncodeCard(card_data[i])])

\* json.loads(downloader.readall()) of a blob that holds a JSON array
Loads(blob) == [i \in DOMAIN blob.items |-> DecodeObj(blob.items[i])]

\* {card['dbfId']: card for card in card_data if 'dbfId' in card}
BuildMap(card_data) ==
    LET idx  == { i \in DOMAIN card_data : "dbfId" \in DOMAIN card_data[i] }
        keys == { card_data[i].dbfId : i \in idx }
        last(k) == CHOOSE i \in idx :
                      /\ card_data[i].dbfId = k
                      /\ \A j \in idx : card_data[j].dbfId = k => j <= i
    IN  [k \in keys |-> card_data[last(k)]]

\* ------------------------------------------------------- join and transform
\* .replace("\\n", " ").replace("<b>", "").replace("</b>", "")
\* .replace("<i>", "").replace("</i>", "") on a text given as its tokens
StripText(text) ==
    LET F[n \in 0..Len(text)] ==
            IF n = 0 THEN <<>>
            ELSE IF text[n] = "\\n" THEN Append(F[n - 1], " ")
            ELSE IF text[n] \in {"<b>", "</b>", "<i>", "</i>"} THEN F[n - 1]
            ELSE Append(F[n - 1], text[n])
    IN  F[Len(text)]

\* f"{i+1}st": the label of the zero-based index i
PlaceLabel(i) == <<i + 1, "st">>

\* {f"{i+1}st": val for i, val in enumerate(distribution)}, in insertion order
PlacementDist(distribution) ==
    [n \in DOMAIN distribution |-> <<PlaceLabel(n - 1), distribution[n]>>]

\* the combined_data dict of one matched stat record
Combine(card_info, trinket) ==
    [name           |-> IF "name" \in DOMAIN card_info
                        THEN card_info.name ELSE "null",
     avg_placement  |-> trinket.avg_final_placement,
     text           |-> StripText(IF "text" \in DOMAIN card_info
                                  THEN card_info.text ELSE <<>>),
     placement_dist |-> PlacementDist(trinket.final_placement_distribution),
     dbf_id         |-> trinket.trinket_dbf_id]

\* `if card_info:` a dict is truthy when it has at least one member
Truthy(card_info) == DOMAIN card_info # {}

\* the loop leaving at the first record without a card (break, not skip)
ProcessTrinkets_break(trinket_stats, catalog) ==
    LET ok(n) == trinket_stats[n].trinket_dbf_id \in DOMAIN catalog
        F[n \in 0..Len(trinket_stats)] ==
            IF n = 0 THEN <<>>
            ELSE IF \A k \in 1..n : ok(k)
                 THEN Append(F[n - 1],
                             Combine(catalog[trinket_stats[n].trinket_dbf_id],
                                     trinket_stats[n]))
                 ELSE F[n - 1]
    IN  F[Len(trinket_stats)]

\* the loop over trinket_stats: a record is kept when card_map.get(dbf_id)
\* is a non-empty card, and skipped (with a warning) otherwise
ProcessTrinkets(trinket_stats, catalog) ==
    LET F[n \in 0..Len(trinket_stats)] ==
            IF n = 0 THEN <<>>
            ELSE LET dbf_id == trinket_stats[n].trinket_dbf_id
                 IN  IF dbf_id \in DOMAIN catalog /\ Truthy(catalog[dbf_id])
                     THEN Append(F[n - 1],
                                 Combine(catalog[dbf_id], trinket_stats[n]))
                     ELSE F[n - 1]
    IN  F[Len(trinket_stats)]

\* the insertion step of a sort called with reverse=True
InsertSorted_reverse(s, x) ==
    LET k == Cardinality({ i \in DOMAIN s :
                             s[i].avg_placement >= x.avg_placement })
    IN  SubSeq(s, 1, k) \o <<x>> \o SubSeq(s, k + 1, Len(s))

\* one step of a stable sort: x goes behind every element whose key is <= its own
InsertSorted(s, x) ==
    LET k == Cardinality({ i \in DOMAIN s :
                             s[i].avg_placement <= x.avg_placement })
    IN  SubSeq(s, 1, k) \o <<x>> \o SubSeq(s, k + 1, Len(s))

\* sorted(processed_trinkets, key=lambda x: x["avg_placement"])
SortTrinkets(processed_trinkets) ==
    LET F[n \in 0..Len(processed_trinkets)] ==
            IF n = 0 THEN <<>>
            ELSE InsertSorted(F[n - 1], processed_trinkets[n])
    IN  F[Len(processed_trinkets)]

\* json.dumps of one Processed Trinket, members in insertion order
EncodeTrinket(t) ==
    << <<"name", t.name>>, <<"avg_placement", t.avg_placement>>,
       <<"text", t.text>>, <<"placement_dist", t.placement_dist>>,
       <<"dbf_id", t.dbf_id>> >>

\* json.dumps(sorted_trinkets, ensure_ascii=False, indent=2)
DumpsTrinkets(sorted_trinkets) ==
    JsonArray([n \in DOMAIN sorted_trinkets |->
                  EncodeTrinket(sorted_trinkets[n])])

\* all(...) in the place of any(...)
MissingTrinketsExist_all(trinket_stats, catalog) ==
    \A n \in DOMAIN trinket_stats :
        trinket_stats[n].trinket_dbf_id \notin DOMAIN catalog

\* any(t.get("trinket_dbf_id") not in card_map for t in trinket_stats)
MissingTrinketsExist(trinket_stats, catalog) ==
    \E n \in DOMAIN trinket_stats :
        trinket_stats[n].trinket_dbf_id \notin DOMAIN catalog

\* `not card_map`: None and the empty dict are both falsy
NotCardMap(m) == ~m.some \/ DOMAIN m.val = {}

\* `not trinket_stats`: None and the empty list are both falsy
NotTrinketStats(s) == ~s.some \/ Len(s.val) = 0

\* ------------------------------------------------------------------- state
VARIABLES
    CONNECTION_STRING,  \* TRUE when AZURE_STORAGE_CONNECTION_STRING is set
    cardBlob,           \* content of the blob CARD_DATA_BLOB_NAME (the cache)
    processedBlob,      \* content of the blob PROCESSED_DATA_BLOB_NAME
    remoteCards,        \* the card list CARD_DATA_URL serves
    remoteStats,        \* the stat list HSREPLAY_API_URL serves
    pc,                 \* per invocation: the statement main has reached
    force_update,       \* per invocation: argument of the load in progress
    card_data,          \* per invocation: the list response.json() returned
    card_map,           \* per invocation: main's card_map
    was_updated,        \* per invocation: main's was_updated
    trinket_stats,      \* per invocation: main's trinket_stats
    sorted_trinkets,    \* per invocation: main's sorted_trinkets
    ret,                \* per invocation: what the last load returned
    trace,              \* per invocation: the I/O calls made so far, in order
    before,             \* per invocation: both blobs when main was entered
    lastWriter          \* the invocation that wrote processedBlob last (0: none)

vars ==
    << CONNECTION_STRING, cardBlob, processedBlob, remoteCards, remoteStats,
       pc, force_update, card_data, card_map, was_updated, trinket_stats,
       sorted_trinkets, ret, trace, before, lastWriter >>

shared == << CONNECTION_STRING, remoteCards, remoteStats >>

\* main has returned, or an exception has left it
Returned == { "ret_config", "ret_connect", "ret_nocards", "ret_nostats",
              "ret_update_failed", "done" }
Terminal == Returned \cup { "crashed" }

NoRet == [card_map |-> None, updated |-> FALSE, called |-> FALSE]

Init ==
    /\ CONNECTION_STRING \in BOOLEAN
    /\ cardBlob \in {Absent, Corrupt} \cup { Dumps(p) : p \in CardPayloads }
    /\ processedBlob = Absent
    /\ remoteCards \in CardPayloads
    /\ remoteStats \in StatPayloads
    /\ pc = [i \in Inv |-> "idle"]
    /\ force_update = [i \in Inv |-> FALSE]
    /\ card_data = [i \in Inv |-> <<>>]
    /\ card_map = [i \in Inv |-> None]
    /\ was_updated = [i \in Inv |-> FALSE]
    /\ trinket_stats = [i \in Inv |-> None]
    /\ sorted_trinkets = [i \in Inv |-> <<>>]
    /\ ret = [i \in Inv |-> NoRet]
    /\ trace = [i \in Inv |-> <<>>]
    /\ before = [i \in Inv |-> [cards |-> Absent, processed |-> Absent]]
    /\ lastWriter = 0

Log(i, event) == trace' = [trace EXCEPT ![i] = Append(@, event)]

\* ------------------------------------------------------------------ actions
\* main without the `if not CONNECTION_STRING` check
main_entry_unchecked(i) ==
    /\ pc[i] = "idle"
    /\ pc' = [pc EXCEPT ![i] = "connect"]
    /\ before' = [before EXCEPT ![i] = [cards |-> cardBlob,
                                        processed |-> processedBlob]]
    /\ UNCHANGED << shared, cardBlob, processedBlob, force_update, card_data,
                    card_map, was_updated, trinket_stats, sorted_trinkets,
                    ret, trace, lastWriter >>

\* main, lines 65-72: the timer fires; without a credential main returns at once
main_entry(i) ==
    /\ pc[i] = "idle"
    /\ pc' = [pc EXCEPT ![i] = IF CONNECTION_STRING THEN "connect"
                               ELSE "ret_config"]
    /\ before' = [before EXCEPT ![i] = [cards |-> cardBlob,
                                        processed |-> processedBlob]]
    /\ UNCHANGED << shared, cardBlob, processedBlob, force_update, card_data,
                    card_map, was_updated, trinket_stats, sorted_trinkets,
                    ret, trace, lastWriter >>

\* upload_blob: without overwrite the store refuses to replace a blob that
\* exists (ResourceExistsError)
StoreAccepts(blob, overwrite) == overwrite \/ blob.kind = "absent"

\* line 42: upload_blob(..., overwrite=True) of the cache blob
CacheOverwrite == TRUE

\* the final upload with its overwrite argument left at the default
ProcessedOverwrite_default == FALSE

\* line 123: upload_blob(..., overwrite=True) of the processed-data blob
ProcessedOverwrite == TRUE

\* a load that never looks at the cache
LoadEntry_nocache(force) == "load_fetch"

\* the statement a call of get_card_data_and_map starts with (line 25):
\* with force_update the existence check is short-circuited away
LoadEntry(force) == IF force THEN "load_fetch" ELSE "load_exists"

\* main, lines 74-80: BlobServiceClient.from_connection_string, then the
\* initial call get_card_data_and_map(blob_service_client)
connect(i) ==
    /\ pc[i] = "connect"
    /\ \E ok \in BOOLEAN :
          IF ok
          THEN /\ pc' = [pc EXCEPT ![i] = LoadEntry(FALSE)]
               /\ force_update' = [force_update EXCEPT ![i] = FALSE]
               /\ Log(i, "connect_ok")
          ELSE /\ pc' = [pc EXCEPT ![i] = "ret_connect"]
               /\ Log(i, "connect_err")
               /\ UNCHANGED force_update
    /\ UNCHANGED << shared, cardBlob, processedBlob, card_data, card_map,
                    was_updated, trinket_stats, sorted_trinkets, ret, before,
                    lastWriter >>

\* get_card_data_and_map, line 25: blob_client.exists(); the call is outside
\* every try block, so an error of the store leaves main as an exception
load_exists(i) ==
    /\ pc[i] = "load_exists"
    /\ \E ok \in BOOLEAN :
          IF ok
          THEN /\ pc' = [pc EXCEPT ![i] = IF cardBlob.kind # "absent"
                                          THEN "load_read" ELSE "load_fetch"]
               /\ Log(i, IF cardBlob.kind # "absent"
                         THEN "exists_true" ELSE "exists_false")
          ELSE /\ pc' = [pc EXCEPT ![i] = "crashed"]
               /\ Log(i, "exists_err")
    /\ UNCHANGED << shared, cardBlob, processedBlob, force_update, card_data,
                    card_map, was_updated, trinket_stats, sorted_trinkets,
                    ret, before, lastWriter >>

\* the caller's side without the `if not card_map: return` checks
AfterLoad_unchecked(i, m, updated) ==
    /\ ret' = [ret EXCEPT ![i] = [card_map |-> m, updated |-> updated,
                                   called |-> TRUE]]
    /\ card_map' = [card_map EXCEPT ![i] = m]
    /\ was_updated' = [was_updated EXCEPT
                          ![i] = IF force_update[i] THEN @ ELSE updated]
    /\ pc' = [pc EXCEPT ![i] = IF force_update[i] THEN "save" ELSE "stats"]

\* the forced call with its result thrown away (the cached card_map is kept
\* once the reload has returned a catalog)
AfterLoad_discard(i, m, updated) ==
    /\ ret' = [ret EXCEPT ![i] = [card_map |-> m, updated |-> updated,
                                   called |-> TRUE]]
    /\ card_map' = [card_map EXCEPT
                       ![i] = IF force_update[i] /\ ~NotCardMap(m) THEN @ ELSE m]
    /\ was_updated' = [was_updated EXCEPT
                          ![i] = IF force_update[i] THEN @ ELSE updated]
    /\ pc' = [pc EXCEPT ![i] =
                 IF NotCardMap(m)
                 THEN (IF force_update[i] THEN "ret_update_failed"
                       ELSE "ret_nocards")
                 ELSE (IF force_update[i] THEN "save" ELSE "stats")]

\* the initial call with the returned flag thrown away: was_updated stays False
AfterLoad_noflag(i, m, updated) ==
    /\ ret' = [ret EXCEPT ![i] = [card_map |-> m, updated |-> updated,
                                   called |-> TRUE]]
    /\ card_map' = [card_map EXCEPT ![i] = m]
    /\ UNCHANGED was_updated
    /\ pc' = [pc EXCEPT ![i] =
                 IF NotCardMap(m)
                 THEN (IF force_update[i] THEN "ret_update_failed"
                       ELSE "ret_nocards")
                 ELSE (IF force_update[i] THEN "save" ELSE "stats")]

\* main, lines 80-82 and 91-93: the caller's side of a return of the load.
\* The initial call assigns card_map and was_updated, the forced call assigns
\* card_map only; a falsy card_map ends the run
AfterLoad(i, m, updated) ==
    /\ ret' = [ret EXCEPT ![i] = [card_map |-> m, updated |-> updated,
                                   called |-> TRUE]]
    /\ card_map' = [card_map EXCEPT ![i] = m]
    /\ was_updated' = [was_updated EXCEPT
                          ![i] = IF force_update[i] THEN @ ELSE updated]
    /\ pc' = [pc EXCEPT ![i] =
                 IF NotCardMap(m)
                 THEN (IF force_update[i] THEN "ret_update_failed"
                       ELSE "ret_nocards")
                 ELSE (IF force_update[i] THEN "save" ELSE "stats")]

\* the cache read without its `return card_map, False`
load_read_noreturn(i) ==
    /\ pc[i] = "load_read"
    /\ \E ok \in BOOLEAN :
          /\ pc' = [pc EXCEPT ![i] = "load_fetch"]
          /\ Log(i, IF ok /\ cardBlob.kind = "json" THEN "read_ok"
                    ELSE IF ok THEN "read_corrupt" ELSE "read_err")
    /\ UNCHANGED << shared, cardBlob, processedBlob, force_update, card_data,
                    card_map, was_updated, ret, trinket_stats,
                    sorted_trinkets, before, lastWriter >>

\* get_card_data_and_map, lines 26-33: download, parse and index the cache;
\* any exception is logged as a warning and the load goes on to the API
load_read(i) ==
    /\ pc[i] = "load_read"
    /\ \E ok \in BOOLEAN :
          IF ok /\ cardBlob.kind = "json"
          THEN /\ AfterLoad(i, Some(BuildMap(Loads(cardBlob))), FALSE)
               /\ Log(i, "read_ok")
          ELSE /\ pc' = [pc EXCEPT ![i] = "load_fetch"]
               /\ Log(i, IF ok THEN "read_corrupt" ELSE "read_err")
               /\ UNCHANGED << card_map, was_updated, ret >>
    /\ UNCHANGED << shared, cardBlob, processedBlob, force_update, card_data,
                    trinket_stats, sorted_trinkets, before, lastWriter >>

\* the request with the upload placed before raise_for_status: the body of a
\* failed response is stored in the cache blob
load_fetch_stores_error(i) ==
    /\ pc[i] = "load_fetch"
    /\ \E ok \in BOOLEAN :
          IF ok
          THEN /\ card_data' = [card_data EXCEPT ![i] = remoteCards]
               /\ pc' = [pc EXCEPT ![i] = "load_upload"]
               /\ Log(i, "fetch_ok")
               /\ UNCHANGED << cardBlob, card_map, was_updated, ret >>
          ELSE /\ cardBlob' = Corrupt
               /\ AfterLoad(i, None, FALSE)
               /\ Log(i, "fetch_err")
               /\ UNCHANGED card_data
    /\ UNCHANGED << shared, processedBlob, force_update,
                    trinket_stats, sorted_trinkets, before, lastWriter >>

\* get_card_data_and_map, lines 35-39 and 46-48: requests.get(CARD_DATA_URL);
\* a RequestException makes the load return (None, False)
load_fetch(i) ==
    /\ pc[i] = "load_fetch"
    /\ \E ok \in BOOLEAN :
          IF ok
          THEN /\ card_data' = [card_data EXCEPT ![i] = remoteCards]
               /\ pc' = [pc EXCEPT ![i] = "load_upload"]
               /\ Log(i, "fetch_ok")
               /\ UNCHANGED << card_map, was_updated, ret >>
          ELSE /\ AfterLoad(i, None, FALSE)
               /\ Log(i, "fetch_err")
               /\ UNCHANGED card_data
    /\ UNCHANGED << shared, cardBlob, processedBlob, force_update,
                    trinket_stats, sorted_trinkets, before, lastWriter >>

\* get_card_data_and_map, lines 41-45: upload_blob(json.dumps(card_data),
\* overwrite=True); only RequestException is caught around it, so an error of
\* the store leaves the load, and main, as an exception
load_upload(i) ==
    /\ pc[i] = "load_upload"
    /\ \E ok \in BOOLEAN :
          IF ok /\ StoreAccepts(cardBlob, CacheOverwrite)
          THEN /\ cardBlob' = Dumps(card_data[i])
               /\ AfterLoad(i, Some(BuildMap(card_data[i])), TRUE)
               /\ Log(i, "upload_ok")
          ELSE /\ pc' = [pc EXCEPT ![i] = "crashed"]
               /\ Log(i, IF ok THEN "upload_refused" ELSE "upload_err")
               /\ UNCHANGED << cardBlob, card_map, was_updated, ret >>
    /\ UNCHANGED << shared, processedBlob, force_update, card_data,
                    trinket_stats, sorted_trinkets, before, lastWriter >>

\* main, line 89: `if missing_trinkets_exist and not was_updated`
NeedsForcedUpdate_flagless(missing, updated) == missing

NeedsForcedUpdate(missing, updated) == missing /\ ~updated

\* get_trinket_stats (lines 50-63) and main, lines 84-91: fetch the stats,
\* end the run on a falsy result, else decide on the forced reload
fetch_stats(i) ==
    /\ pc[i] = "stats"
    /\ \E ok \in BOOLEAN :
          LET stats == IF ok THEN Some(remoteStats) ELSE None
              forced == /\ ~NotTrinketStats(stats)
                        /\ NeedsForcedUpdate(
                              MissingTrinketsExist(stats.val, card_map[i].val),
                              was_updated[i])
          IN  /\ trinket_stats' = [trinket_stats EXCEPT ![i] = stats]
              /\ Log(i, IF ok THEN "stats_ok" ELSE "stats_err")
              /\ force_update' = [force_update EXCEPT ![i] = forced]
              /\ pc' = [pc EXCEPT ![i] =
                           IF NotTrinketStats(stats) THEN "ret_nostats"
                           ELSE IF forced THEN LoadEntry(TRUE) ELSE "save"]
    /\ UNCHANGED << shared, cardBlob, processedBlob, card_data, card_map,
                    was_updated, sorted_trinkets, ret, before, lastWriter >>

\* main, lines 95-127: join, sort, and upload_blob(PROCESSED_DATA_BLOB_NAME,
\* overwrite=True); an error of the store is caught and logged
save(i) ==
    /\ pc[i] = "save"
    /\ LET sorted == SortTrinkets(ProcessTrinkets(trinket_stats[i].val,
                                                  card_map[i].val))
       IN  /\ sorted_trinkets' = [sorted_trinkets EXCEPT ![i] = sorted]
           /\ \E ok \in BOOLEAN :
                 IF ok /\ StoreAccepts(processedBlob, ProcessedOverwrite)
                 THEN /\ processedBlob' = DumpsTrinkets(sorted)
                      /\ lastWriter' = i
                      /\ Log(i, "write_ok")
                 ELSE /\ Log(i, IF ok THEN "write_refused" ELSE "write_err")
                      /\ UNCHANGED << processedBlob, lastWriter >>
    /\ pc' = [pc EXCEPT ![i] = "done"]
    /\ UNCHANGED << shared, cardBlob, force_update, card_data, card_map,
                    was_updated, trinket_stats, ret, before >>

\* the steps of invocation i once main has been entered
Run(i) ==
    \/ connect(i)
    \/ load_exists(i)
    \/ load_read(i)
    \/ load_fetch(i)
    \/ load_upload(i)
    \/ fetch_stats(i)
    \/ save(i)

\* the timer fires one tick at a time: an invocation starts when the
\* invocations before it have ended
InTurn(i) == \A j \in Inv : j < i => pc[j] \in Terminal

timer_tick(i) == InTurn(i) /\ main_entry(i)

Next == \E i \in Inv : timer_tick(i) \/ Run(i)

Spec == Init /\ [][Next]_vars

\* overlapping ticks: the steps of the two invocations interleave freely
NextOverlap == \E i \in Inv : main_entry(i) \/ Run(i)

SpecOverlap == Init /\ [][NextOverlap]_vars

\* =================================================================== claims
\* the events of invocation i's trace that lie in the set S
Events(i, S) == { k \in DOMAIN trace[i] : trace[i][k] \in S }
Has(i, e) == Events(i, {e}) # {}
LastEvent(i) == IF trace[i] = <<>> THEN "none" ELSE trace[i][Len(trace[i])]

\* requests to the remote catalog source, writes of the cache blob, writes of
\* the processed-data blob, requests to the stats source
CatalogRequests(i) == Events(i, {"fetch_ok", "fetch_err"})
CacheWrites(i) == Events(i, {"upload_ok", "upload_err", "upload_refused"})
ProcessedWrites(i) == Events(i, {"write_ok", "write_err", "write_refused"})
StatsRequests(i) == Events(i, {"stats_ok", "stats_err"})

\* I/O calls that failed (a cache whose content does not parse is no I/O failure)
Failures(i) ==
    Events(i, {"connect_err", "exists_err", "read_err", "fetch_err",
               "upload_err", "upload_refused", "stats_err", "write_err",
               "write_refused"})

\* no invocation after i has started: the blobs are as i left them
Current(i) == \A j \in Inv : j > i => pc[j] = "idle"

\* the card list a cache blob was written from, if it holds one
CachedList(blob) == { p \in CardPayloads : blob = Dumps(p) }

\* the catalog of a card list, stated on its own: every dbfId of the list is
\* mapped to the last card of the list that carries it
IsCatalogOf(m, p) ==
    /\ DOMAIN m = { p[n].dbfId : n \in { k \in DOMAIN p : "dbfId" \in DOMAIN p[k] } }
    /\ \A n \in DOMAIN p :
          "dbfId" \in DOMAIN p[n] =>
              \/ m[p[n].dbfId] = p[n]
              \/ \E k \in DOMAIN p : /\ k > n
                                    /\ "dbfId" \in DOMAIN p[k]
                                    /\ p[k].dbfId = p[n].dbfId

\* C1: a load with forceUpdate=false whose cache blob exists, reads and parses
\* has, when it returns, made no request to the remote catalog source and no
\* write of the cache blob, and returns the catalog of the cached card list
\* together with wasUpdatedFromRemote = false
C1_CacheHit ==
    \A i \in Inv :
        LastEvent(i) = "read_ok" =>
            /\ CatalogRequests(i) = {}
            /\ CacheWrites(i) = {}
            /\ Current(i) => cardBlob = before[i].cards
            /\ ret[i].called /\ ret[i].card_map.some /\ ~ret[i].updated
            /\ \E p \in CachedList(before[i].cards) :
                  IsCatalogOf(ret[i].card_map.val, p)

\* C1 witness: a cache hit on a list of two cards while the remote source
\* serves another list
C1_Witness ==
    \E i \in Inv :
        /\ LastEvent(i) = "read_ok"
        /\ before[i].cards = Dumps(<<CardA, CardA2>>)
        /\ remoteCards = <<CardB>>
        /\ ret[i].card_map.val = (1 :> CardA2)

\* C2 (as claimed): a non-forced load that went to the remote source and got
\* its payload ends with the payload in the cache blob and returns
\* (catalog, true), after exactly one request
C2_MissWritesBack ==
    \A i \in Inv :
        (~force_update[i] /\ Has(i, "fetch_ok") /\ pc[i] # "load_upload") =>
            /\ Cardinality(CatalogRequests(i)) = 1
            /\ Has(i, "upload_ok")
            /\ ret[i].called /\ ret[i].updated /\ ret[i].card_map.some
            /\ IsCatalogOf(ret[i].card_map.val, card_data[i])

\* the catalog the cache held when invocation i started
CachedCatalog(i) == BuildMap(Loads(before[i].cards))

\* some stat record of the list has a join key outside the set of keys
KeyMissing(stats, keys) ==
    \E n \in DOMAIN stats : stats[n].trinket_dbf_id \notin keys

\* the initial load of invocation i was served from the cache, and the stats
\* that were fetched hold a record whose key that catalog lacks
C3_Case(i) ==
    /\ Has(i, "read_ok")
    /\ trinket_stats[i].some
    /\ KeyMissing(trinket_stats[i].val, DOMAIN CachedCatalog(i))

\* C3: in such a run exactly one request goes to the remote catalog source;
\* it comes after the stats fetch, and until it has been made no record is
\* joined and the processed-data blob is not written
C3_ForcedRefresh ==
    \A i \in Inv :
        C3_Case(i) =>
            /\ Cardinality(CatalogRequests(i)) <= 1
            /\ pc[i] \in {"load_upload", "save"} \cup Terminal
                  => Cardinality(CatalogRequests(i)) = 1
            /\ \A k \in CatalogRequests(i) :
                  /\ \E s \in StatsRequests(i) : s < k
                  /\ \A w \in ProcessedWrites(i) : k < w
            /\ CatalogRequests(i) = {} =>
                  /\ pc[i] = "load_fetch" /\ force_update[i]
                  /\ sorted_trinkets[i] = <<>>
                  /\ ProcessedWrites(i) = {}

\* C3 witness: a run that found a key missing from the cached catalog, made
\* the forced request and went on to write its output
C3_Witness ==
    \E i \in Inv :
        /\ C3_Case(i)
        /\ pc[i] = "done"
        /\ Has(i, "write_ok")
        /\ Cardinality(CatalogRequests(i)) = 1
        /\ Len(sorted_trinkets[i]) = 2

\* C4: when the initial load fetched the catalog from the remote source, the
\* run makes that one request to the remote catalog source and no other,
\* whatever keys the stats carry
C4_NoDoubleRefresh ==
    \A i \in Inv :
        was_updated[i] =>
            /\ Cardinality(CatalogRequests(i)) = 1
            /\ Cardinality(CacheWrites(i)) = 1
            /\ ~force_update[i]

\* C4 witness: a finished run whose initial load was remote and whose stats
\* hold a key the fetched catalog lacks
C4_Witness ==
    \E i \in Inv :
        /\ was_updated[i]
        /\ pc[i] = "done"
        /\ trinket_stats[i].some
        /\ KeyMissing(trinket_stats[i].val, DOMAIN card_map[i].val)

\* C5 (as claimed): with the credential present no failure of a later step
\* leaves main as an unhandled exception
C5_NoEscape ==
    \A i \in Inv : CONNECTION_STRING => pc[i] # "crashed"

\* a load of invocation i has returned no catalog, or its stats fetch has
\* returned null
C6_Case(i) ==
    \/ ret[i].called /\ ~ret[i].card_map.some
    \/ Has(i, "stats_err")

\* C6: such a run has ended without writing the processed-data blob, which
\* holds what it held when the run began, and has executed no later step: no
\* stats fetch after a failed initial load, no join after a failed stats fetch
\* or a failed forced reload
C6_NoPartialOutput ==
    \A i \in Inv :
        C6_Case(i) =>
            /\ pc[i] \in {"ret_nocards", "ret_nostats", "ret_update_failed"}
            /\ LastEvent(i) \in {"fetch_err", "stats_err"}
            /\ ProcessedWrites(i) = {}
            /\ sorted_trinkets[i] = <<>>
            /\ Current(i) => processedBlob = before[i].processed
            /\ pc[i] = "ret_nocards" => StatsRequests(i) = {}
            /\ pc[i] = "ret_nostats" => CatalogRequests(i) = {} \/ was_updated[i]

\* C6 witness: a second run whose forced reload failed, with the output of the
\* first run still in the processed-data blob
C6_Witness ==
    /\ pc[1] = "done" /\ Has(1, "write_ok")
    /\ pc[2] = "ret_update_failed"
    /\ processedBlob = DumpsTrinkets(sorted_trinkets[1])
    /\ sorted_trinkets[1] # <<>>

\* C7 (as claimed, for a non-empty catalog): with the credential present, the
\* store connected, a catalog loaded, a non-null stats list fetched and every
\* forced reload successful, the run that has ended has written the
\* processed-data blob, for every stats list, the empty one included
C7_EveryStatsListIsSaved ==
    \A i \in Inv :
        ( /\ pc[i] \in Terminal
          /\ Has(i, "stats_ok")
          /\ card_map[i].some /\ DOMAIN card_map[i].val # {}
          /\ Failures(i) \subseteq Events(i, {"read_err", "write_err"}) )
        => ProcessedWrites(i) # {}

\* the records of a sequence of Processed Trinkets that stem from stat record r
FromRecord(out, r) ==
    { k \in DOMAIN out : /\ out[k].dbf_id = r.trinket_dbf_id
                         /\ out[k].avg_placement = r.avg_final_placement }

\* C8: a stat record whose key the catalog used for the join lacks is left
\* out and does not fail the run: a run that holds a non-empty catalog and a
\* non-empty stats list ends in "done", its result holds one Processed Trinket
\* for every stat record whose key is in the catalog and none for the others,
\* and that result is what the processed-data blob holds after the write
C8_MissingRecordSkipped ==
    \A i \in Inv :
        LET stats == trinket_stats[i].val
            keys  == DOMAIN card_map[i].val
            out   == sorted_trinkets[i]
        IN  /\ ( /\ pc[i] \in Returned
                 /\ trinket_stats[i].some /\ stats # <<>>
                 /\ card_map[i].some /\ keys # {} ) => pc[i] = "done"
            /\ pc[i] = "done" =>
                  /\ ProcessedWrites(i) # {}
                  /\ Len(out) = Cardinality({ n \in DOMAIN stats :
                                  stats[n].trinket_dbf_id \in keys })
                  /\ \A r \in StatRecs :
                        Cardinality(FromRecord(out, r)) =
                            IF r.trinket_dbf_id \in keys
                            THEN Cardinality({ n \in DOMAIN stats : stats[n] = r })
                            ELSE 0
                  /\ (Has(i, "write_ok") /\ Current(i)) =>
                        /\ processedBlob.kind = "json"
                        /\ Len(processedBlob.items) = Len(out)
                        /\ \A k \in DOMAIN out :
                              processedBlob.items[k][5] = <<"dbf_id", out[k].dbf_id>>

\* C8 witness: after a forced refresh one of two stat records still has no
\* card; the other one is written
C8_Witness ==
    \E i \in Inv :
        /\ pc[i] = "done" /\ Has(i, "write_ok") /\ Current(i)
        /\ force_update[i]
        /\ Len(trinket_stats[i].val) = 2
        /\ KeyMissing(trinket_stats[i].val, DOMAIN card_map[i].val)
        /\ Len(processedBlob.items) = 1

Other(i) == CHOOSE j \in Inv : j # i

\* C10: with two overlapping invocations the processed-data blob always holds
\* the complete output of the invocation that wrote it last, never a mixture;
\* the store never refuses a write of one invocation because the other has
\* written, and when both are about to write the processed-data blob each of
\* them can take its step
C10_LastWriterWins ==
    /\ processedBlob = IF lastWriter = 0 THEN Absent
                       ELSE DumpsTrinkets(sorted_trinkets[lastWriter])
    /\ \A i \in Inv :
          /\ lastWriter = i => Has(i, "write_ok")
          /\ ~Has(i, "write_refused") /\ ~Has(i, "upload_refused")
          /\ (pc[i] = "save" /\ pc[Other(i)] = "save") => ENABLED Run(i)

\* C10 witness: both invocations started before either wrote, both wrote
\* different outputs, and the blob holds the output of the later writer
C10_Witness ==
    /\ pc[1] = "done" /\ pc[2] = "done"
    /\ Has(1, "write_ok") /\ Has(2, "write_ok")
    /\ before[1].processed = Absent /\ before[2].processed = Absent
    /\ sorted_trinkets[1] # sorted_trinkets[2]
    /\ lastWriter = 1
    /\ processedBlob = DumpsTrinkets(sorted_trinkets[1])
    /\ processedBlob # DumpsTrinkets(sorted_trinkets[2])

\* the number of places of a sequence that hold x
Count(seq, x) == Cardinality({ k \in DOMAIN seq : seq[k] = x })

\* the records the join loop of invocation i produces, in the order of the stats
Joined(i) == ProcessTrinkets(trinket_stats[i].val, card_map[i].val)

\* C11: the sequence a run hands to the final upload is non-decreasing in
\* avg_placement and is a permutation of the joined records, and the blob the
\* upload wrote lists the same placements in the same order
C11_SortedPermutation ==
    \A i \in Inv :
        pc[i] = "done" =>
            LET out == sorted_trinkets[i]
            IN  /\ \A k \in DOMAIN out : \A l \in DOMAIN out :
                      k < l => out[k].avg_placement <= out[l].avg_placement
                /\ Len(out) = Len(Joined(i))
                /\ \A n \in DOMAIN Joined(i) :
                      Count(out, Joined(i)[n]) = Count(Joined(i), Joined(i)[n])
                /\ (Has(i, "write_ok") /\ Current(i)) =>
                      \A k \in DOMAIN out :
                          processedBlob.items[k][2] =
                              <<"avg_placement", out[k].avg_placement>>

\* C11 witness: the join produced two records in descending order of placement
\* and the run wrote them in ascending order
C11_Witness ==
    \E i \in Inv :
        /\ pc[i] = "done" /\ Has(i, "write_ok") /\ Current(i)
        /\ Len(Joined(i)) = 2
        /\ Joined(i)[1].avg_placement > Joined(i)[2].avg_placement
        /\ processedBlob.items[1][2] = <<"avg_placement", 1>>
        /\ processedBlob.items[2][2] = <<"avg_placement", 2>>

\* the place labels "1st", "2nd", "3rd" of the claim
ClaimedDist == << << <<1, "st">>, 10 >>, << <<2, "nd">>, 20 >>, << <<3, "rd">>, 5 >> >>

\* C12 (as claimed): a Processed Trinket made from a stat record with the
\* distribution [10, 20, 5] carries the mapping {"1st": 10, "2nd": 20, "3rd": 5}
C12_PlaceLabels ==
    \A i \in Inv :
        pc[i] = "done" =>
            \A n \in DOMAIN trinket_stats[i].val :
                LET t == trinket_stats[i].val[n]
                IN  ( /\ t.final_placement_distribution = <<10, 20, 5>>
                      /\ t.trinket_dbf_id \in DOMAIN card_map[i].val )
                    => \E k \in DOMAIN sorted_trinkets[i] :
                          /\ sorted_trinkets[i][k].dbf_id = t.trinket_dbf_id
                          /\ sorted_trinkets[i][k].placement_dist = ClaimedDist

\* C13: without the storage credential every run ends at the configuration
\* check: it makes no blob-store call and no request, and both blobs hold
\* what they held when the run began
C13_NoCredentialNoIO ==
    ~CONNECTION_STRING =>
        \A i \in Inv :
            /\ pc[i] \in {"idle", "ret_config"}
            /\ trace[i] = <<>>
            /\ pc[i] = "ret_config" =>
                  /\ cardBlob = before[i].cards
                  /\ processedBlob = before[i].processed
                  /\ ~ret[i].called /\ ~trinket_stats[i].some
                  /\ lastWriter = 0

\* C13 witness: both runs have ended at the configuration check, with a cache
\* blob in the store that none of them touched
C13_Witness ==
    /\ ~CONNECTION_STRING
    /\ pc[1] = "ret_config" /\ pc[2] = "ret_config"
    /\ cardBlob = Dumps(<<CardA>>)
    /\ remoteCards = <<CardA2, CardB>>

\* the places of the card list p that define dbfId id: the last card carrying it
Defines(p, id) ==
    { n \in DOMAIN p :
        /\ "dbfId" \in DOMAIN p[n] /\ p[n].dbfId = id
        /\ \A m \in DOMAIN p :
              ("dbfId" \in DOMAIN p[m] /\ p[m].dbfId = id) => m <= n }

\* C14: a run that ended after a successful forced reload has joined every
\* record against the payload that reload fetched: each stat record whose key
\* the payload defines is in the output, and each output record has the name
\* and the (stripped) text of the payload's card, not of the cached one
C14_JoinUsesRefreshed ==
    \A i \in Inv :
        (pc[i] = "done" /\ force_update[i]) =>
            LET payload == card_data[i]
                out     == sorted_trinkets[i]
                stats   == trinket_stats[i].val
            IN  /\ payload = remoteCards
                /\ \A n \in DOMAIN stats :
                      Defines(payload, stats[n].trinket_dbf_id) # {} =>
                          \E k \in DOMAIN out :
                              out[k].dbf_id = stats[n].trinket_dbf_id
                /\ \A k \in DOMAIN out :
                      \E n \in Defines(payload, out[k].dbf_id) :
                          /\ out[k].name = payload[n].name
                          /\ out[k].text = StripText(payload[n].text)

\* C14 witness: the cache held card A only, the remote list holds A2 and B;
\* the record with key 2 forced the reload, and both output records carry the
\* remote names
C14_Witness ==
    \E i \in Inv :
        /\ pc[i] = "done" /\ force_update[i]
        /\ before[i].cards = Dumps(<<CardA>>)
        /\ { sorted_trinkets[i][k].name : k \in DOMAIN sorted_trinkets[i] }
              = {"A2", "B"}

\* C15: in every run the remote catalog source is requested at most once and
\* the cache blob is written at most once; a run whose initial load went to
\* the remote source makes no forced reload
C15_AtMostOneRefresh ==
    \A i \in Inv :
        /\ Cardinality(CatalogRequests(i)) <= 1
        /\ Cardinality(CacheWrites(i)) <= 1
        /\ ~(Has(i, "stats_ok") /\ force_update[i] /\ ret[i].updated
             /\ ~Has(i, "read_ok"))
        /\ \A k \in DOMAIN trace[i] :
              (trace[i][k] = "upload_ok" /\ \E s \in StatsRequests(i) : k < s)
                  => ~force_update[i]

\* C15 witness: an initial load that fetched the remote list, followed by
\* stats with a key that list lacks, and the run has ended
C15_Witness ==
    \E i \in Inv :
        /\ pc[i] = "done"
        /\ ~Has(i, "read_ok") /\ Has(i, "upload_ok")
        /\ Cardinality(CatalogRequests(i)) = 1
        /\ \E n \in DOMAIN trinket_stats[i].val :
              trinket_stats[i].val[n].trinket_dbf_id \notin DOMAIN card_map[i].val
        /\ Len(sorted_trinkets[i]) = 1

\* C16: the cache blob is written only right after a remote fetch that
\* succeeded, and only with the payload of that fetch; a run without such a
\* write (its fetch failed, also in a forced reload over a valid cache, or its
\* load was served from the cache) leaves the blob as it was, so the blob holds
\* its content from before the run or a complete remote payload
C16_CacheWrittenOnlyFromFetch ==
    \A i \in Inv :
        /\ \A k \in CacheWrites(i) : k > 1 /\ trace[i][k - 1] = "fetch_ok"
        /\ (pc[i] # "idle" /\ Current(i)) =>
              /\ cardBlob \in {before[i].cards, Dumps(remoteCards)}
              /\ ~Has(i, "upload_ok") => cardBlob = before[i].cards
              /\ Has(i, "upload_ok") =>
                    /\ card_data[i] = remoteCards
                    /\ cardBlob = Dumps(card_data[i])
              /\ LastEvent(i) \in {"fetch_err", "read_ok"} =>
                    cardBlob = before[i].cards

\* C16 witness: a forced reload over a valid cache whose remote fetch failed;
\* the run has ended and the cache holds the old list, not the remote one
C16_Witness ==
    \E i \in Inv :
        /\ pc[i] = "ret_update_failed"
        /\ Current(i)
        /\ LastEvent(i) = "fetch_err"
        /\ before[i].cards = Dumps(<<CardA>>)
        /\ cardBlob = before[i].cards
        /\ remoteCards = <<CardA2, CardB>>

\* invocation i started from a cache blob that holds a card list, read it
\* without an I/O failure, and the catalog of that list has the key of every
\* record the stats source serves
C17_Case(i) ==
    /\ pc[i] # "idle"
    /\ before[i].cards.kind = "json"
    /\ ~Has(i, "read_err")
    /\ ~KeyMissing(remoteStats, DOMAIN CachedCatalog(i))

\* C17: such a run makes no request to the remote catalog source, makes no
\* forced reload and leaves the cache blob as it was; the cache a sequence of
\* such runs ends with is the one the first of them started from, and a
\* successful refresh occurs only in a run that is not of this kind
C17_NoRefreshWhileCacheCovers ==
    /\ \A i \in Inv :
          C17_Case(i) =>
              /\ CatalogRequests(i) = {}
              /\ CacheWrites(i) = {}
              /\ ~force_update[i]
              /\ Current(i) => cardBlob = before[i].cards
    /\ (\A i \in Inv : C17_Case(i)) =>
          /\ before[2].cards = before[1].cards
          /\ cardBlob = before[1].cards
    /\ \A i \in Inv :
          Has(i, "upload_ok") =>
              \/ before[i].cards.kind \in {"absent", "corrupt"}
              \/ Has(i, "read_err")
              \/ KeyMissing(remoteStats, DOMAIN CachedCatalog(i))

\* C17 witness: two complete runs over a cache that holds card A while the
\* remote source serves A2 and B; the stats name key 1 only, the cache is
\* still the old one and the second output carries the cached name
C17_Witness ==
    /\ pc[1] = "done" /\ pc[2] = "done"
    /\ C17_Case(1) /\ C17_Case(2)
    /\ before[1].cards = Dumps(<<CardA>>)
    /\ remoteCards = <<CardA2, CardB>>
    /\ cardBlob = Dumps(<<CardA>>)
    /\ Len(sorted_trinkets[2]) = 1
    /\ sorted_trinkets[2][1].name = "A"

====
